---------------------------- MODULE Spec2Model ----------------------------
(***************************************************************************)
(* A model of the Digital-will ("Aeturnum") backend:                       *)
(*   - backend/ordinals.js : the carrier (Ordinal inscription) encoder    *)
(*   - backend/bitcoin.js  : buildTimeLockedTransaction                    *)
(*   - backend/server.js   : POST /api/vault/create, withAuth              *)
(*   - src/context/AuthContext : AuthProvider                              *)
(*                                                                         *)
(* Strings are sequences of code points, Buffers are sequences of bytes,   *)
(* and the conversions between them (Buffer.from(s, 'utf8'),               *)
(* buf.toString('utf8'), bitcoin.script.compile / decompile) are modelled  *)
(* by what they do on those sequences.                                     *)
(***************************************************************************)
EXTENDS Integers, Sequences, FiniteSets, TLC

VARIABLES
    \* ---- encoder session (ordinals.js called by a client) ----
    data,          \* the payload string handed to the encoder
    contentType,   \* the content type string handed to the encoder
    script,        \* [made, by, bytes]: the script produced last
    parsed,        \* result of parseOrdinalInscription(script.bytes)
    validation,    \* result of validateInscriptionData(data)
    \* ---- one call of buildTimeLockedTransaction (bitcoin.js) ----
    req,           \* the call's arguments
    bpc,           \* "idle", "fetch" (awaiting getTransactionHex), "done", "failed"
    nextUtxo,      \* index of the utxo whose previous transaction is awaited
    totalInput,    \* the local let totalInput
    psbt,          \* the local Psbt object
    ret,           \* what the call returned or threw
    \* ---- the server (server.js) and one POST /api/vault/create ----
    handler,       \* the version of the route: "legacy" (lines 29-109) or "auth" (315-439)
    supabaseAdmin, \* whether the Supabase client was created (lines 260-269)
    now,           \* Math.floor(Date.now() / 1000)
    vaults,        \* table digitalwill_vaults, by vault_id
    spc,           \* where the request's handler is
    token,         \* the bearer token of the request
    body,          \* req.body
    user,          \* the user authenticateRequest returned
    utxos,         \* the handler's const utxos
    inscriptionScript, \* the handler's const inscriptionScript
    response,      \* what was sent with res.status(...).json(...)
    \* ---- several calls of buildTimeLockedTransaction in flight ----
    calls,         \* by call: its arguments, locals and result
    \* ---- one request to a route wrapped in withAuth (server.js) ----
    endpoint,      \* the route
    authorization, \* req.headers.authorization
    bodyOk,        \* whether the request passes the handler's own validation
    epc,           \* where withAuth and the handler are
    awaited,       \* index of the effect the handler awaits
    euser,         \* the user authenticateRequest returned, "" for null
    effects,       \* the fetches, builds, broadcasts and database calls made
    responses,     \* the status codes sent on res, in order
    \* ---- AuthProvider (React) ----
    authStore,     \* the session the Supabase client holds
    getSessionPc,  \* the initial getSession(): "none", "called", "read", "settled"
    snapshot,      \* the session getSession() read
    session,       \* state: session
    loading,       \* state: loading
    mounted,       \* the effect's let mounted
    subscribed,    \* whether the onAuthStateChange subscription is active
    lastEvent,     \* the most recent auth event delivered to the provider
    eventCount     \* auth events so far

encVars == <<data, contentType, script, parsed, validation>>

buildVars == <<req, bpc, nextUtxo, totalInput, psbt, ret>>

serverVars == <<handler, supabaseAdmin, now, vaults, spc, token, body, user,
                utxos, inscriptionScript, response>>

concVars == <<calls>>

endpointVars == <<endpoint, authorization, bodyOk, epc, awaited, euser, effects,
                  responses>>

providerVars == <<authStore, getSessionPc, snapshot, session, loading, mounted,
                  subscribed, lastEvent, eventCount>>

auxVars == <<concVars, endpointVars, providerVars>>

vars == <<data, contentType, script, parsed, validation,
          req, bpc, nextUtxo, totalInput, psbt, ret,
          handler, supabaseAdmin, now, vaults, spc, token, body, user,
          utxos, inscriptionScript, response,
          calls,
          endpoint, authorization, bodyOk, epc, awaited, euser, effects, responses,
          authStore, getSessionPc, snapshot, session, loading, mounted,
          subscribed, lastEvent, eventCount>>

----------------------------------------------------------------------------
(* Bounds of the model *)

\* payload lengths are taken around the first MaxChunks multiples of 520
MaxChunks == 2

\* a build request holds at most MaxUtxos spendable outputs
MaxUtxos == 3

\* a build request names at most MaxHeirs heir addresses
MaxHeirs == 3

\* at most MaxCalls calls of buildTimeLockedTransaction are in flight together
MaxCalls == 2

\* the Supabase client delivers at most MaxEvents auth events
MaxEvents == 3

----------------------------------------------------------------------------
(* JavaScript values *)

\* `undefined`, as produced by decompiled[3]?.[0] when the chunk is a number
Undefined == -1

Min(a, b) == IF a < b THEN a ELSE b

CeilDiv(a, b) == (a + b - 1) \div b

RECURSIVE SumSeq(_)
SumSeq(s) == IF s = <<>> THEN 0 ELSE Head(s) + SumSeq(Tail(s))

----------------------------------------------------------------------------
(* UTF-8: Buffer.from(string, 'utf8') and buffer.toString('utf8') *)

ReplacementChar == 65533

IsCont(b) == b >= 128 /\ b <= 191

Utf8EncodeChar(c) ==
    IF c < 128 THEN <<c>>
    ELSE IF c < 2048 THEN <<192 + (c \div 64), 128 + (c % 64)>>
    ELSE <<224 + (c \div 4096), 128 + ((c \div 64) % 64), 128 + (c % 64)>>

\* Buffer.from(s, 'utf8'); halving keeps the recursion shallow on long strings
RECURSIVE BufferFromUtf8(_)
BufferFromUtf8(s) ==
    IF Len(s) = 0 THEN <<>>
    ELSE IF Len(s) = 1 THEN Utf8EncodeChar(s[1])
    ELSE LET h == Len(s) \div 2
         IN  BufferFromUtf8(SubSeq(s, 1, h)) \o BufferFromUtf8(SubSeq(s, h + 1, Len(s)))

\* the decoder on a short buffer, byte after byte; an ill-formed byte becomes
\* U+FFFD (4-byte forms, which JavaScript holds as surrogate pairs, are not
\* produced by any string of this model and are read as ill-formed)
RECURSIVE Utf8DecodeSeq(_)
Utf8DecodeSeq(b) ==
    IF Len(b) = 0 THEN <<>>
    ELSE IF b[1] < 128 THEN <<b[1]>> \o Utf8DecodeSeq(Tail(b))
    ELSE IF b[1] >= 194 /\ b[1] <= 223 /\ Len(b) >= 2 /\ IsCont(b[2])
         THEN <<(b[1] - 192) * 64 + (b[2] - 128)>> \o Utf8DecodeSeq(SubSeq(b, 3, Len(b)))
    ELSE IF b[1] >= 224 /\ b[1] <= 239 /\ Len(b) >= 3 /\ IsCont(b[2]) /\ IsCont(b[3])
            /\ (b[1] - 224) * 4096 + (b[2] - 128) * 64 + (b[3] - 128) >= 2048
         THEN <<(b[1] - 224) * 4096 + (b[2] - 128) * 64 + (b[3] - 128)>>
              \o Utf8DecodeSeq(SubSeq(b, 4, Len(b)))
    ELSE <<ReplacementChar>> \o Utf8DecodeSeq(Tail(b))

\* buffer.toString('utf8'); a long buffer is cut at a character boundary (a
\* byte that is no continuation byte always starts a new character)
RECURSIVE BufferToStringUtf8(_)
BufferToStringUtf8(b) ==
    IF Len(b) <= 4 THEN Utf8DecodeSeq(b)
    ELSE LET h0 == Len(b) \div 2
             h  == IF ~IsCont(b[h0 + 1]) THEN h0
                   ELSE IF ~IsCont(b[h0 + 2]) THEN h0 + 1
                   ELSE h0 + 2
         IN  BufferToStringUtf8(SubSeq(b, 1, h)) \o BufferToStringUtf8(SubSeq(b, h + 1, Len(b)))

----------------------------------------------------------------------------
(* bitcoinjs-lib: opcodes, pushdata, script.compile, script.decompile *)

OP_FALSE == 0
OP_PUSHDATA1 == 76
OP_PUSHDATA2 == 77
OP_PUSHDATA4 == 78
OP_1NEGATE == 79
OP_RESERVED == 80
OP_IF == 99
OP_ENDIF == 104
OP_RETURN == 106

\* a chunk of a script: an opcode (a number) or a Buffer
Op(n) == [isBuf |-> FALSE, op |-> n, buf |-> <<>>]
Buf(b) == [isBuf |-> TRUE, op |-> Undefined, buf |-> b]

\* script.js asMinimalOP: the opcode that stands for a one-byte push, if any
asMinimalOP(buffer) ==
    IF Len(buffer) = 0 THEN OP_FALSE
    ELSE IF Len(buffer) # 1 THEN Undefined
    ELSE IF buffer[1] >= 1 /\ buffer[1] <= 16 THEN OP_RESERVED + buffer[1]
    ELSE IF buffer[1] = 129 THEN OP_1NEGATE
    ELSE Undefined

\* pushdata.encode: the push opcode and length prefix of an n-byte push
pushdataEncode(n) ==
    IF n < OP_PUSHDATA1 THEN <<n>>
    ELSE IF n <= 255 THEN <<OP_PUSHDATA1, n>>
    ELSE IF n <= 65535 THEN <<OP_PUSHDATA2, n % 256, n \div 256>>
    ELSE <<OP_PUSHDATA4, n % 256, (n \div 256) % 256, (n \div 65536) % 256, n \div 16777216>>

compileChunk(chunk) ==
    IF chunk.isBuf
    THEN IF asMinimalOP(chunk.buf) # Undefined
         THEN <<asMinimalOP(chunk.buf)>>
         ELSE pushdataEncode(Len(chunk.buf)) \o chunk.buf
    ELSE <<chunk.op>>

\* bitcoin.script.compile(chunks)
RECURSIVE compile(_)
compile(chunks) ==
    IF chunks = <<>> THEN <<>>
    ELSE compileChunk(Head(chunks)) \o compile(Tail(chunks))

\* pushdata.decode at 1-based position i: [ok, size, number]
pushdataDecode(buffer, i) ==
    LET opcode == buffer[i]
        n == Len(buffer)
    IN  IF opcode < OP_PUSHDATA1 THEN [ok |-> TRUE, size |-> 1, number |-> opcode]
        ELSE IF opcode = OP_PUSHDATA1
             THEN IF i + 1 > n THEN [ok |-> FALSE, size |-> 0, number |-> 0]
                  ELSE [ok |-> TRUE, size |-> 2, number |-> buffer[i + 1]]
        ELSE IF opcode = OP_PUSHDATA2
             THEN IF i + 2 > n THEN [ok |-> FALSE, size |-> 0, number |-> 0]
                  ELSE [ok |-> TRUE, size |-> 3, number |-> buffer[i + 1] + 256 * buffer[i + 2]]
        ELSE IF i + 4 > n THEN [ok |-> FALSE, size |-> 0, number |-> 0]
             ELSE [ok |-> TRUE, size |-> 5,
                   number |-> buffer[i + 1] + 256 * buffer[i + 2]
                              + 65536 * buffer[i + 3] + 16777216 * buffer[i + 4]]

\* bitcoin.script.decompile(buffer), from position i on, chunks so far in acc;
\* ok = FALSE stands for the null it returns on a push that runs past the end
\* (chunks then holds the operations read before that push)
RECURSIVE decompileFrom(_, _, _)
decompileFrom(buffer, i, acc) ==
    IF i > Len(buffer) THEN [ok |-> TRUE, chunks |-> acc]
    ELSE LET opcode == buffer[i]
         IN  IF opcode > OP_FALSE /\ opcode <= OP_PUSHDATA4
             THEN LET d == pushdataDecode(buffer, i)
                  IN  IF ~d.ok THEN [ok |-> FALSE, chunks |-> acc]
                      ELSE IF i + d.size + d.number - 1 > Len(buffer)
                           THEN [ok |-> FALSE, chunks |-> acc]
                      ELSE LET bytes == SubSeq(buffer, i + d.size, i + d.size + d.number - 1)
                               mop == asMinimalOP(bytes)
                           IN  decompileFrom(buffer, i + d.size + d.number,
                                   Append(acc, IF mop # Undefined THEN Op(mop) ELSE Buf(bytes)))
             ELSE decompileFrom(buffer, i + 1, Append(acc, Op(opcode)))

decompile(buffer) == decompileFrom(buffer, 1, <<>>)

----------------------------------------------------------------------------
(* backend/ordinals.js *)

\* the strings the module writes as literals, as code points
StrOrd == <<111, 114, 100>>                                     \* "ord"
StrTextPlain == <<116, 101, 120, 116, 47, 112, 108, 97, 105, 110, 59, 99,
                  104, 97, 114, 115, 101, 116, 61, 117, 116, 102, 45, 56>>
                                                  \* "text/plain;charset=utf-8"
StrAppJson == <<97, 112, 112, 108, 105, 99, 97, 116, 105, 111, 110, 47,
                106, 115, 111, 110>>                      \* "application/json"
StrXyz == <<120, 121, 122>>                                     \* "xyz"

\* the push-size ceiling createLargeOrdinalInscription hands to chunkData
PushLimit == 520

\* validateInscriptionData: const maxSize = 10 * 1024
maxSize == 10 * 1024

createOrdinalInscription(d, ct) ==
    compile(<<Op(OP_FALSE), Op(OP_IF), Buf(BufferFromUtf8(StrOrd)), Buf(<<1>>),
              Buf(BufferFromUtf8(ct)), Buf(<<0>>), Buf(BufferFromUtf8(d)),
              Op(OP_ENDIF)>>)

\* chunkData(data, chunkSize): data.slice(i, i + chunkSize) for i = 0, chunkSize, ...
\* (slice counts the string's code units, not the bytes they encode to)
chunkData(d, chunkSize) ==
    [k \in 1..CeilDiv(Len(d), chunkSize) |->
        SubSeq(d, (k - 1) * chunkSize + 1, Min(k * chunkSize, Len(d)))]

\* the chunk list createLargeOrdinalInscription hands to script.compile
largeInscriptionChunks(d, ct) ==
    LET dataChunks == chunkData(d, PushLimit)
    IN  <<Op(OP_FALSE), Op(OP_IF), Buf(BufferFromUtf8(StrOrd)), Buf(<<1>>),
          Buf(BufferFromUtf8(ct)), Buf(<<0>>)>>
        \o [k \in 1..Len(dataChunks) |-> Buf(BufferFromUtf8(dataChunks[k]))]
        \o <<Op(OP_ENDIF)>>

createLargeOrdinalInscription(d, ct) == compile(largeInscriptionChunks(d, ct))

NoParse == [status |-> "none", error |-> "", protocol |-> <<>>,
            version |-> Undefined, contentType |-> <<>>, data |-> <<>>]

ParseError(msg) == [NoParse EXCEPT !.status = "error", !.error = msg]

\* mutant: only the first operation of the marker pair is compared
parseFirstMarkerOnly(s) ==
    LET dec == decompile(s)
        decompiled == dec.chunks
    IN  IF ~dec.ok \/ Len(decompiled) < 7
        THEN ParseError("Invalid inscription script")
        ELSE IF decompiled[1] # Op(OP_FALSE)
        THEN ParseError("Not an Ordinal inscription")
        ELSE IF ~decompiled[3].isBuf \/ ~decompiled[5].isBuf \/ ~decompiled[7].isBuf
        THEN ParseError("RangeError: toString() radix must be between 2 and 36")
        ELSE [status |-> "ok", error |-> "",
              protocol |-> BufferToStringUtf8(decompiled[3].buf),
              version |-> IF decompiled[4].isBuf THEN decompiled[4].buf[1] ELSE Undefined,
              contentType |-> BufferToStringUtf8(decompiled[5].buf),
              data |-> BufferToStringUtf8(decompiled[7].buf)]

\* parseOrdinalInscription(script).  chunk?.toString('utf8') decodes a Buffer
\* and throws a RangeError on a number (Number.prototype.toString takes a
\* radix); chunk?.[0] is the first byte of a Buffer and undefined on a number.
parseOrdinalInscription(s) ==
    LET dec == decompile(s)
        decompiled == dec.chunks
    IN  IF ~dec.ok \/ Len(decompiled) < 7
        THEN ParseError("Invalid inscription script")
        ELSE IF decompiled[1] # Op(OP_FALSE) \/ decompiled[2] # Op(OP_IF)
        THEN ParseError("Not an Ordinal inscription")
        ELSE IF ~decompiled[3].isBuf \/ ~decompiled[5].isBuf \/ ~decompiled[7].isBuf
        THEN ParseError("RangeError: toString() radix must be between 2 and 36")
        ELSE [status |-> "ok", error |-> "",
              protocol |-> BufferToStringUtf8(decompiled[3].buf),
              version |-> IF decompiled[4].isBuf THEN decompiled[4].buf[1] ELSE Undefined,
              contentType |-> BufferToStringUtf8(decompiled[5].buf),
              data |-> BufferToStringUtf8(decompiled[7].buf)]

estimateInscriptionSize(d, ct) ==
    LET overhead == 1 + 1 + (1 + 3) + (1 + 1) + (1 + Len(ct)) + (1 + 1) + 1
                    + CeilDiv(Len(d), 520) * 3
    IN  Len(d) + overhead

NoValidation == [status |-> "none", isValid |-> FALSE, errors |-> <<>>,
                 size |-> 0, estimatedInscriptionSize |-> 0]

validateInscriptionData(d) ==
    LET e1 == IF Len(d) = 0 THEN <<"Data cannot be empty">> ELSE <<>>
        e2 == IF Len(d) > maxSize THEN <<"Data too large">> ELSE <<>>
        errors == e1 \o e2
    IN  [status |-> "done", isValid |-> (Len(errors) = 0), errors |-> errors,
         size |-> Len(d),
         estimatedInscriptionSize |-> estimateInscriptionSize(d, StrTextPlain)]

----------------------------------------------------------------------------
(* The inputs of the encoder session *)

PayloadKinds == {"ascii", "latin"}

\* the i-th character of a payload of a kind: ASCII letters, or two-byte
\* characters (U+00E0..U+00E7)
CharAt(kind, i) ==
    IF kind = "ascii" THEN 97 + (i % 26)
    ELSE 224 + (i % 8)

PayloadLens ==
    {1, 2} \cup {k * PushLimit + d : k \in 1..MaxChunks, d \in {-1, 0, 1}}
           \cup {maxSize, maxSize + 1}

Payload(kind, len) == [i \in 1..len |-> CharAt(kind, i)]

Payloads == {Payload(kind, len) : kind \in PayloadKinds, len \in PayloadLens}

ContentTypes == {StrTextPlain, StrAppJson}

\* scripts a caller may hand to parseOrdinalInscription: prefixes of an
\* envelope whose marker pair, tag and version vary, optionally cut by a byte
ClientChunks(d, ct) ==
    {SubSeq(<<m1, m2, tag, ver, Buf(BufferFromUtf8(ct)), Buf(<<0>>),
              Buf(BufferFromUtf8(d)), Op(OP_ENDIF)>>, 1, n) :
        m1 \in {Op(OP_FALSE), Op(OP_RETURN)}, m2 \in {Op(OP_IF), Op(OP_ENDIF)},
        tag \in {Buf(BufferFromUtf8(StrOrd)), Buf(BufferFromUtf8(StrXyz)), Op(OP_ENDIF)},
        ver \in {Buf(<<1>>), Buf(<<2>>)},
        n \in 0..8}

NoScript == [made |-> FALSE, by |-> "none", bytes |-> <<>>]

----------------------------------------------------------------------------
(* The encoder session: a client of ordinals.js *)

EncoderIdle ==
    /\ data = <<>>
    /\ contentType = <<>>
    /\ script = NoScript
    /\ parsed = NoParse
    /\ validation = NoValidation

InitEncoderSession ==
    /\ data \in Payloads
    /\ contentType \in ContentTypes
    /\ script = NoScript
    /\ parsed = NoParse
    /\ validation = NoValidation

CallCreateOrdinalInscription ==
    /\ ~script.made
    /\ script' = [made |-> TRUE, by |-> "createOrdinalInscription",
                  bytes |-> createOrdinalInscription(data, contentType)]
    /\ UNCHANGED <<data, contentType, parsed, validation>>
    /\ UNCHANGED <<buildVars, serverVars, auxVars>>

CallCreateLargeOrdinalInscription ==
    /\ ~script.made
    /\ script' = [made |-> TRUE, by |-> "createLargeOrdinalInscription",
                  bytes |-> createLargeOrdinalInscription(data, contentType)]
    /\ UNCHANGED <<data, contentType, parsed, validation>>
    /\ UNCHANGED <<buildVars, serverVars, auxVars>>

\* a script that comes from elsewhere (read off a chain, or hand-made)
ClientScript ==
    /\ ~script.made
    /\ Len(data) <= 2
    /\ \E chunks \in ClientChunks(data, contentType), cut \in {0, 1} :
          LET bytes == compile(chunks)
          IN  /\ cut <= Len(bytes)
              /\ script' = [made |-> TRUE, by |-> "client",
                            bytes |-> SubSeq(bytes, 1, Len(bytes) - cut)]
    /\ UNCHANGED <<data, contentType, parsed, validation>>
    /\ UNCHANGED <<buildVars, serverVars, auxVars>>

CallParseOrdinalInscription ==
    /\ script.made
    /\ parsed.status = "none"
    /\ parsed' = parseOrdinalInscription(script.bytes)
    /\ UNCHANGED <<data, contentType, script, validation>>
    /\ UNCHANGED <<buildVars, serverVars, auxVars>>

CallValidateInscriptionData ==
    /\ validation.status = "none"
    /\ validation' = validateInscriptionData(data)
    /\ UNCHANGED <<data, contentType, script, parsed>>
    /\ UNCHANGED <<buildVars, serverVars, auxVars>>

NextEncoder ==
    \/ CallCreateOrdinalInscription
    \/ CallCreateLargeOrdinalInscription
    \/ ClientScript
    \/ CallParseOrdinalInscription
    \/ CallValidateInscriptionData


----------------------------------------------------------------------------
(* backend/bitcoin.js: buildTimeLockedTransaction *)

\* 32-bit unsigned values as two 16-bit halves (they exceed the checker's
\* integers): 0xfffffffe, the sequence of line 92, and the final 0xffffffff
U32(hi, lo) == [hi |-> hi, lo |-> lo]
LessU32(a, b) == a.hi < b.hi \/ (a.hi = b.hi /\ a.lo < b.lo)
NonFinalSequence == U32(65535, 65534)
FinalSequence == U32(65535, 65535)

dustLimit == 546
estimatedFee == 1000
InputSize == 148
OutputSize == 34
TxOverhead == 10
FeeRate == 2

NoPsbt == [locktime |-> 0, txIns |-> <<>>, txOuts |-> <<>>, dataOutputs |-> <<>>]

NoRequest == [utxos |-> <<>>, heirAddresses |-> <<>>, lockTime |-> 0,
              inscriptionScript |-> <<>>]

NoReturn == [status |-> "none", error |-> "", tx |-> NoPsbt, lockTime |-> 0,
             fee |-> 0, inputs |-> 0, outputs |-> 0]

Thrown(msg) == [NoReturn EXCEPT !.status = "error", !.error = msg]

\* address.toOutputScript(address, network) throws on a malformed address
IsValidAddress(a) == a # "bad"

\* mutant: a lockTime below 500000000 (a block height) is dropped
setLocktimeSecondsOnly(p, lockTime) ==
    [p EXCEPT !.locktime = IF lockTime < 500000000 THEN 0 ELSE lockTime]

\* psbt.setLocktime(lockTime)
setLocktime(p, lockTime) == [p EXCEPT !.locktime = lockTime]

\* mutant: the input keeps the default, final sequence number
addInputFinalSequence(p, utxo) ==
    [p EXCEPT !.txIns = Append(@, [hash |-> utxo.txid, index |-> utxo.vout,
                                   sequence |-> FinalSequence])]

\* psbt.addInput({hash, index, nonWitnessUtxo, sequence: 0xfffffffe})
addInput(p, utxo) ==
    [p EXCEPT !.txIns = Append(@, [hash |-> utxo.txid, index |-> utxo.vout,
                                   sequence |-> NonFinalSequence])]

\* psbt.addOutput(...): the output goes into the unsigned transaction
\* (psbt.__CACHE.__TX.outs) and an empty PSBT output map into psbt.data.outputs
addOutput(p, scr, addr, value) ==
    [p EXCEPT !.txOuts = Append(@, [script |-> scr, address |-> addr, value |-> value]),
              !.dataOutputs = Append(@, [value |-> Undefined, hasValue |-> FALSE])]

\* mutant: the heir outputs are added last address first
RECURSIVE addHeirOutputsReversed(_, _, _)
addHeirOutputsReversed(p, heirs, value) ==
    IF heirs = <<>> THEN p
    ELSE addOutput(addHeirOutputsReversed(p, Tail(heirs), value), <<>>, Head(heirs), value)

\* for (const heirAddress of heirAddresses) psbt.addOutput({address, value})
RECURSIVE addHeirOutputs(_, _, _)
addHeirOutputs(p, heirs, value) ==
    IF heirs = <<>> THEN p
    ELSE addHeirOutputs(addOutput(p, <<>>, Head(heirs), value), Tail(heirs), value)

\* the numbers Infinity and NaN, which a division by heirAddresses.length = 0
\* yields; every other number of a build is an integer
Infinity == 2147483647
NegInfinity == -Infinity
NaN == Infinity - 1

IsFiniteNumber(v) == v \notin {Infinity, NegInfinity, NaN}

\* a < b for numbers: false when either side is NaN
LessNumber(a, b) == a # NaN /\ b # NaN /\ a < b

\* a - b for a finite b
MinusNumber(a, b) == IF IsFiniteNumber(a) THEN a - b ELSE a

\* mutant: the share is taken from the whole input, without the reserve
valuePerHeirNoReserve(total, n) ==
    IF n = 0
    THEN IF total > 0 THEN Infinity ELSE NaN
    ELSE total \div n

\* const valuePerHeir = Math.floor((totalInput - estimatedFee) / heirAddresses.length)
valuePerHeirOf(total, n) ==
    IF n = 0
    THEN IF total - estimatedFee > 0 THEN Infinity
         ELSE IF total - estimatedFee < 0 THEN NegInfinity
         ELSE NaN
    ELSE (total - estimatedFee) \div n

feeOf(p) ==
    (Len(p.txIns) * InputSize + Len(p.dataOutputs) * OutputSize + TxOverhead) * FeeRate

\* mutant: the fee adjustment reaches the amount of the transaction's last output
adjustLastTxOutput(p, value) ==
    [p EXCEPT !.dataOutputs[Len(p.dataOutputs)] = [value |-> value, hasValue |-> TRUE],
              !.txOuts[Len(p.txOuts)].value = value]

\* psbt.data.outputs[lastOutputIndex].value = valuePerHeir - fee.  psbt.data
\* is the PSBT key-value store (bip174): its outputs are per-output maps, and
\* the amounts of the transaction live in psbt.__CACHE.__TX.outs, from which
\* hex, txid and psbt.toBase64() are serialised.  The assignment therefore
\* adds a property to the map of the last output and leaves the
\* transaction's output as addOutput made it.
adjustLastOutput(p, value) ==
    [p EXCEPT !.dataOutputs[Len(p.dataOutputs)] = [value |-> value, hasValue |-> TRUE]]

\* lines 98-149: what the call does once every input is added, up to its
\* return or throw; [bpc, psbt, ret]
buildTail(p0, total, r) ==
    LET p1 == addOutput(p0, r.inscriptionScript, "", 0)
        n == Len(r.heirAddresses)
        valuePerHeir == valuePerHeirOf(total, n)
        p2 == addHeirOutputs(p1, r.heirAddresses, valuePerHeir)
        fee == feeOf(p2)
        p3 == adjustLastOutput(p2, MinusNumber(valuePerHeir, fee))
    IN  IF LessNumber(valuePerHeir, dustLimit)
        THEN [bpc |-> "failed", psbt |-> p1, ret |-> Thrown("Insufficient funds")]
        ELSE IF \E i \in 1..n : ~IsValidAddress(r.heirAddresses[i])
        THEN [bpc |-> "failed", psbt |-> p1, ret |-> Thrown("Invalid address")]
        ELSE [bpc |-> "done", psbt |-> p3,
              ret |-> [status |-> "ok", error |-> "",
                       tx |-> [p3 EXCEPT !.dataOutputs = <<>>],
                       lockTime |-> r.lockTime, fee |-> fee,
                       inputs |-> Len(p3.txIns), outputs |-> Len(p3.dataOutputs)]]

\* one call of buildTimeLockedTransaction: its arguments, its position, its
\* locals (let totalInput, const psbt) and its result
Call(r, pc, n, total, p, rt) ==
    [req |-> r, bpc |-> pc, nextUtxo |-> n, totalInput |-> total, psbt |-> p, ret |-> rt]

NoCall == Call(NoRequest, "idle", 1, 0, NoPsbt, NoReturn)

\* lines 74-86: the call up to its first await
startCall(r) ==
    LET p0 == setLocktime(NoPsbt, r.lockTime)
    IN  IF Len(r.utxos) = 0
        THEN LET t == buildTail(p0, 0, r)
             IN  Call(r, t.bpc, 1, 0, t.psbt, t.ret)
        ELSE Call(r, "fetch", 1, 0, p0, NoReturn)

\* getTransactionHex answers: lines 88-96, then the next fetch or the tail
fetchOkCall(c) ==
    LET utxo == c.req.utxos[c.nextUtxo]
        p == addInput(c.psbt, utxo)
        total == c.totalInput + utxo.value
    IN  IF c.nextUtxo < Len(c.req.utxos)
        THEN Call(c.req, c.bpc, c.nextUtxo + 1, total, p, c.ret)
        ELSE LET t == buildTail(p, total, c.req)
             IN  Call(c.req, t.bpc, c.nextUtxo + 1, total, t.psbt, t.ret)

\* getTransactionHex throws: the catch of line 151 rethrows
fetchFailCall(c) ==
    [c EXCEPT !.bpc = "failed", !.ret = Thrown("Failed to fetch transaction")]

\* the single call of the builder and of the server, as a Call
ThisCall == Call(req, bpc, nextUtxo, totalInput, psbt, ret)

SetThisCall(c) ==
    /\ req' = c.req
    /\ bpc' = c.bpc
    /\ nextUtxo' = c.nextUtxo
    /\ totalInput' = c.totalInput
    /\ psbt' = c.psbt
    /\ ret' = c.ret

StartBuild(r) == SetThisCall(startCall(r))

BuildFetchOk ==
    /\ bpc = "fetch"
    /\ SetThisCall(fetchOkCall(ThisCall))

BuildFetchFail ==
    /\ bpc = "fetch"
    /\ SetThisCall(fetchFailCall(ThisCall))

----------------------------------------------------------------------------
(* The inputs of a direct call of buildTimeLockedTransaction *)

UtxoValues == {1000, 1546, 2227, 10000}

\* utxo lists as getUTXOs returns them: distinct outpoints, any values
UtxoLists ==
    UNION {[1..n -> UtxoValues] : n \in 0..MaxUtxos}

Utxos(values) == [i \in 1..Len(values) |-> [txid |-> i, vout |-> 0, value |-> values[i]]]

Addresses == {"heirA", "heirB", "bad"}

\* the caller's list of heir addresses: nothing in the builder bounds its
\* length from below or asks for distinct entries
HeirLists == UNION {[1..n -> Addresses] : n \in 0..MaxHeirs}

LockTimes == {400000, 1700000000}

CarrierScripts ==
    {createOrdinalInscription(Payload("ascii", 2), StrTextPlain),
     createOrdinalInscription(Payload("ascii", PushLimit + 1), StrTextPlain)}

BuildRequests ==
    {[utxos |-> Utxos(v), heirAddresses |-> h, lockTime |-> lt, inscriptionScript |-> sc] :
        v \in UtxoLists, h \in HeirLists, lt \in LockTimes, sc \in CarrierScripts}

BuilderIdle ==
    /\ req = NoRequest
    /\ bpc = "idle"
    /\ nextUtxo = 1
    /\ totalInput = 0
    /\ psbt = NoPsbt
    /\ ret = NoReturn

CallBuildTimeLockedTransaction ==
    /\ bpc = "idle"
    /\ \E r \in BuildRequests : StartBuild(r)
    /\ UNCHANGED <<encVars, serverVars, auxVars>>

FetchOk == BuildFetchOk /\ UNCHANGED <<encVars, serverVars, auxVars>>

FetchFail == BuildFetchFail /\ UNCHANGED <<encVars, serverVars, auxVars>>

NextBuilder ==
    \/ CallBuildTimeLockedTransaction
    \/ FetchOk
    \/ FetchFail

----------------------------------------------------------------------------
(* backend/server.js: POST /api/vault/create *)

NoBody == [vaultId |-> "", encryptedData |-> <<>>, heirAddresses |-> <<>>,
           lockTime |-> 0, fundingAddress |-> ""]

NoResponse == [sent |-> FALSE, status |-> 0, error |-> "", transaction |-> NoReturn]

Respond(status, error) ==
    [sent |-> TRUE, status |-> status, error |-> error, transaction |-> NoReturn]

RespondSuccess(transaction) ==
    [sent |-> TRUE, status |-> 200, error |-> "", transaction |-> transaction]

NoRow == [exists |-> FALSE, owner_id |-> "", encrypted_payload |-> <<>>,
          lock_time |-> 0, lock_days |-> 0, heirs |-> <<>>, status |-> "",
          transaction |-> NoReturn]

\* Math.round(seconds / (24 * 60 * 60))
RoundDays(seconds) == (seconds + 43200) \div 86400

VaultIds == {"v1"}

\* supabaseAdmin.auth.getUser(token): the user a token belongs to, "" for none
UserOfToken(t) == IF t = "tokenAlice" THEN "alice" ELSE ""

\* the checks on the body that both versions make first (lines 34-45,
\* 327-338); "" when the body passes.  An empty string and 0 are falsy.
BodyError(b, withVaultId) ==
    IF \/ (withVaultId /\ b.vaultId = "")
       \/ Len(b.encryptedData) = 0
       \/ b.lockTime = 0
       \/ b.fundingAddress = ""
    THEN "Missing required fields"
    ELSE IF Len(b.heirAddresses) = 0 \/ Len(b.heirAddresses) > 3
    THEN "heirAddresses must be an array with 1-3 addresses"
    ELSE ""

\* the handler proper, from its first line to its first await or response;
\* only the legacy version compares lockTime with the clock (lines 47-53)
EnterHandler(b, withVaultId, checkLockTime) ==
    IF BodyError(b, withVaultId) # ""
    THEN /\ response' = Respond(400, BodyError(b, withVaultId))
         /\ spc' = "responded"
    ELSE IF checkLockTime /\ b.lockTime <= now
    THEN /\ response' = Respond(400, "lockTime must be in the future")
         /\ spc' = "responded"
    ELSE /\ spc' = "utxos"
         /\ UNCHANGED response

\* the request arrives.  legacy: the handler runs at once.  auth: withAuth
\* runs authenticateRequest up to its await of getUser
ReceiveRequest ==
    /\ spc = "idle"
    /\ \E t \in {"", "bad", "tokenAlice"},
          vid \in {""} \cup VaultIds,
          enc \in {<<>>, Payload("ascii", 2), Payload("ascii", PushLimit + 1),
                   Payload("ascii", maxSize + 1)},
          heirs \in {<<>>, <<"heirA">>, <<"heirA", "bad">>,
                     <<"heirA", "heirB", "heirA">>,
                     <<"heirA", "heirB", "heirA", "heirB">>},
          lt \in {0, 400000, 1500000000, 1700000000} :
          /\ token' = t
          /\ body' = [vaultId |-> vid, encryptedData |-> enc, heirAddresses |-> heirs,
                      lockTime |-> lt, fundingAddress |-> "fund"]
    /\ IF handler = "legacy"
       THEN EnterHandler(body', FALSE, TRUE)
       ELSE IF ~supabaseAdmin
       THEN /\ response' = Respond(500, "Supabase not configured on server")
            /\ spc' = "responded"
       ELSE IF token' = ""
       THEN /\ response' = Respond(401, "Missing Bearer authorization token")
            /\ spc' = "responded"
       ELSE /\ spc' = "auth"
            /\ UNCHANGED response
    /\ UNCHANGED <<handler, supabaseAdmin, now, vaults, user, utxos, inscriptionScript>>
    /\ UNCHANGED <<encVars, buildVars, auxVars>>

\* getUser answers: lines 286-297, then the handler up to getUTXOs
AuthResult ==
    /\ spc = "auth"
    /\ \E failed \in BOOLEAN :
          IF failed \/ UserOfToken(token) = ""
          THEN /\ response' = Respond(401, "Invalid or expired authorization token")
               /\ spc' = "responded"
               /\ UNCHANGED user
          ELSE /\ user' = UserOfToken(token)
               /\ EnterHandler(body, TRUE, FALSE)
    /\ UNCHANGED <<handler, supabaseAdmin, now, vaults, token, body, utxos, inscriptionScript>>
    /\ UNCHANGED <<encVars, buildVars, auxVars>>

\* the handler's const utxos before getUTXOs has answered
NotFetched == [fetched |-> FALSE, list |-> <<>>]

\* mutant: an empty list is not told from a funded one
NoUtxosFoundNever(list) == FALSE

\* if (!utxos || utxos.length === 0)
NoUtxosFound(list) == Len(list) = 0

\* getUTXOs answers with a list: lines 343-364 (59-80), up to the first
\* await of buildTimeLockedTransaction
UtxosResult ==
    /\ spc = "utxos"
    /\ \E values \in {<<>>, <<1000>>, <<10000>>, <<1546, 1000>>} :
          /\ utxos' = [fetched |-> TRUE, list |-> Utxos(values)]
          /\ IF NoUtxosFound(utxos'.list)
             THEN /\ response' = Respond(400, "No UTXOs found for funding address. Please fund the address first.")
                  /\ spc' = "responded"
                  /\ UNCHANGED <<inscriptionScript, buildVars>>
             ELSE /\ inscriptionScript' =
                        [made |-> TRUE, by |-> "createOrdinalInscription",
                         bytes |-> createOrdinalInscription(body.encryptedData, StrTextPlain)]
                  /\ StartBuild([utxos |-> utxos'.list, heirAddresses |-> body.heirAddresses,
                                 lockTime |-> body.lockTime,
                                 inscriptionScript |-> inscriptionScript'.bytes])
                  /\ spc' = "build"
                  /\ UNCHANGED response
    /\ UNCHANGED <<handler, supabaseAdmin, now, vaults, token, body, user>>
    /\ UNCHANGED <<encVars, auxVars>>

\* getUTXOs throws: the catch of line 431 (101)
UtxosFail ==
    /\ spc = "utxos"
    /\ response' = Respond(500, "Failed to create vault transaction")
    /\ spc' = "responded"
    /\ UNCHANGED <<handler, supabaseAdmin, now, vaults, token, body, user, utxos,
                   inscriptionScript>>
    /\ UNCHANGED <<encVars, buildVars, auxVars>>

ServerFetchOk ==
    /\ spc = "build"
    /\ BuildFetchOk
    /\ UNCHANGED <<encVars, serverVars, auxVars>>

ServerFetchFail ==
    /\ spc = "build"
    /\ BuildFetchFail
    /\ UNCHANGED <<encVars, serverVars, auxVars>>

\* mutant: a failed build is not caught before the persistence block
BuildSettledPersistsFailure ==
    /\ spc = "build"
    /\ bpc \in {"done", "failed"}
    /\ IF handler = "auth" /\ supabaseAdmin
       THEN /\ spc' = "lookup"
            /\ UNCHANGED response
       ELSE /\ response' = RespondSuccess(ret)
            /\ spc' = "responded"
    /\ UNCHANGED <<handler, supabaseAdmin, now, vaults, token, body, user, utxos,
                   inscriptionScript>>
    /\ UNCHANGED <<encVars, buildVars, auxVars>>

\* buildTimeLockedTransaction settled: the catch of line 431, or line 366
\* (auth: on to the lookup of the vault's owner) or line 82 (legacy: respond)
BuildSettled ==
    /\ spc = "build"
    /\ bpc \in {"done", "failed"}
    /\ IF bpc = "failed"
       THEN /\ response' = Respond(500, "Failed to create vault transaction")
            /\ spc' = "responded"
       ELSE IF handler = "auth" /\ supabaseAdmin
       THEN /\ spc' = "lookup"
            /\ UNCHANGED response
       ELSE /\ response' = RespondSuccess(ret)
            /\ spc' = "responded"
    /\ UNCHANGED <<handler, supabaseAdmin, now, vaults, token, body, user, utxos,
                   inscriptionScript>>
    /\ UNCHANGED <<encVars, buildVars, auxVars>>

\* the select of owner_id answers: lines 387-401
LookupResult ==
    /\ spc = "lookup"
    /\ \E outcome \in {"data", "fetchError", "throws"} :
          IF outcome = "throws"
          THEN /\ response' = RespondSuccess(ret)
               /\ spc' = "responded"
          ELSE IF /\ outcome = "data"
                  /\ vaults[body.vaultId].exists
                  /\ vaults[body.vaultId].owner_id # user
          THEN /\ response' = Respond(403, "You are not authorized to modify this vault")
               /\ spc' = "responded"
          ELSE /\ spc' = "upsert"
               /\ UNCHANGED response
    /\ UNCHANGED <<handler, supabaseAdmin, now, vaults, token, body, user, utxos,
                   inscriptionScript>>
    /\ UNCHANGED <<encVars, buildVars, auxVars>>

\* the upsert answers: lines 399-429
UpsertResult ==
    /\ spc = "upsert"
    /\ \E ok \in BOOLEAN :
          IF ok
          THEN vaults' = [vaults EXCEPT ![body.vaultId] =
                            [exists |-> TRUE, owner_id |-> user,
                             encrypted_payload |-> body.encryptedData,
                             lock_time |-> body.lockTime,
                             lock_days |-> RoundDays(body.lockTime - now),
                             heirs |-> body.heirAddresses, status |-> "built",
                             transaction |-> ret]]
          ELSE UNCHANGED vaults
    /\ response' = RespondSuccess(ret)
    /\ spc' = "responded"
    /\ UNCHANGED <<handler, supabaseAdmin, now, token, body, user, utxos, inscriptionScript>>
    /\ UNCHANGED <<encVars, buildVars, auxVars>>

\* the client sends the request again after a failed build: the handler runs
\* anew, with nothing left of the locals of the earlier run
RetryRequest ==
    /\ spc = "responded"
    /\ bpc = "failed"
    /\ spc' = "idle"
    /\ token' = ""
    /\ body' = NoBody
    /\ user' = ""
    /\ utxos' = NotFetched
    /\ inscriptionScript' = NoScript
    /\ response' = NoResponse
    /\ req' = NoRequest
    /\ bpc' = "idle"
    /\ nextUtxo' = 1
    /\ totalInput' = 0
    /\ psbt' = NoPsbt
    /\ ret' = NoReturn
    /\ UNCHANGED <<handler, supabaseAdmin, now, vaults>>
    /\ UNCHANGED <<encVars, auxVars>>

\* the table when the server starts: no row, or a row of another user or of
\* the caller
InitialVaults ==
    {[v \in VaultIds |-> NoRow],
     [v \in VaultIds |-> [NoRow EXCEPT !.exists = TRUE, !.owner_id = "bob"]],
     [v \in VaultIds |-> [NoRow EXCEPT !.exists = TRUE, !.owner_id = "alice"]]}

ServerIdle ==
    /\ handler = "auth"
    /\ supabaseAdmin = FALSE
    /\ now = 0
    /\ vaults = [v \in VaultIds |-> NoRow]
    /\ spc = "off"
    /\ token = ""
    /\ body = NoBody
    /\ user = ""
    /\ utxos = NotFetched
    /\ inscriptionScript = NoScript
    /\ response = NoResponse

InitServerUp ==
    /\ handler \in {"legacy", "auth"}
    /\ supabaseAdmin \in BOOLEAN
    /\ now = 1600000000
    /\ vaults \in InitialVaults
    /\ spc = "idle"
    /\ token = ""
    /\ body = NoBody
    /\ user = ""
    /\ utxos = NotFetched
    /\ inscriptionScript = NoScript
    /\ response = NoResponse

NextServer ==
    \/ ReceiveRequest
    \/ AuthResult
    \/ UtxosResult
    \/ UtxosFail
    \/ ServerFetchOk
    \/ ServerFetchFail
    \/ BuildSettled
    \/ LookupResult
    \/ UpsertResult
    \/ RetryRequest

----------------------------------------------------------------------------
(* backend/bitcoin.js: calls of buildTimeLockedTransaction that interleave  *)
(* at their awaits                                                          *)

\* the requests of call i: outpoints and lockTimes differ from call to call
ConcUtxoLists == {<<1546>>, <<1000, 10000>>, <<2227, 1000>>}

ConcHeirLists == {<<"heirA">>, <<"heirA", "heirB">>, <<"bad">>}

ConcRequests(i) ==
    {[utxos |-> [k \in 1..Len(v) |-> [txid |-> 10 * i + k, vout |-> 0, value |-> v[k]]],
      heirAddresses |-> h, lockTime |-> 400000 + i,
      inscriptionScript |-> createOrdinalInscription(Payload("ascii", 2), StrTextPlain)] :
        v \in ConcUtxoLists, h \in ConcHeirLists}

\* mutant: the running total is one variable of the module, shared by the calls
callLocalsSharedTotal(cs, i) ==
    [cs[i] EXCEPT !.totalInput =
        SumSeq([j \in 1..Len(cs) |-> IF cs[j].bpc = "fetch" THEN cs[j].totalInput ELSE 0])]

\* what call i works on: const psbt and let totalInput are declared inside
\* the function (lines 76, 82), one of each per call
callLocals(cs, i) == cs[i]

ConcIdle == calls = <<>>

InitConcurrent == calls = [i \in 1..MaxCalls |-> NoCall]

ConcCall ==
    /\ \E i \in 1..MaxCalls :
          /\ calls[i].bpc = "idle"
          /\ \E r \in ConcRequests(i) : calls' = [calls EXCEPT ![i] = startCall(r)]
    /\ UNCHANGED <<encVars, buildVars, serverVars, endpointVars, providerVars>>

ConcFetchOk ==
    /\ \E i \in 1..MaxCalls :
          /\ calls[i].bpc = "fetch"
          /\ calls' = [calls EXCEPT ![i] = fetchOkCall(callLocals(calls, i))]
    /\ UNCHANGED <<encVars, buildVars, serverVars, endpointVars, providerVars>>

ConcFetchFail ==
    /\ \E i \in 1..MaxCalls :
          /\ calls[i].bpc = "fetch"
          /\ calls' = [calls EXCEPT ![i] = fetchFailCall(callLocals(calls, i))]
    /\ UNCHANGED <<encVars, buildVars, serverVars, endpointVars, providerVars>>

NextConcurrent ==
    \/ ConcCall
    \/ ConcFetchOk
    \/ ConcFetchFail

----------------------------------------------------------------------------
(* backend/server.js: withAuth and the routes it wraps *)

Routes == {"create", "broadcast", "utxos", "list", "patch", "delete"}

\* req.headers.authorization: a scheme and what follows it
NoAuthorization == [scheme |-> "", credentials |-> ""]

AuthorizationHeaders ==
    {NoAuthorization,
     [scheme |-> "Basic ", credentials |-> "tokenAlice"],
     [scheme |-> "Bearer ", credentials |-> ""],
     [scheme |-> "Bearer ", credentials |-> "bad"],
     [scheme |-> "Bearer ", credentials |-> "tokenAlice"]}

\* authHeader.startsWith('Bearer ') ? authHeader.slice(7) : null
BearerToken(h) == IF h.scheme = "Bearer " THEN h.credentials ELSE ""

\* authenticateRequest before its await: the status it sends, 0 for none
authEarly(sa, h) ==
    IF ~sa THEN 500
    ELSE IF BearerToken(h) = "" THEN 401
    ELSE 0

\* mutant: the wrapper calls the handler whatever authenticateRequest returned
withAuthReturnsNever(u) == FALSE

\* if (!user) return;
withAuthReturns(u) == u = ""

\* what a handler awaits, in order
HandlerEffects(route) ==
    CASE route = "create" -> <<"getUTXOs", "buildTimeLockedTransaction", "select", "upsert">>
      [] route = "broadcast" -> <<"broadcastTransaction">>
      [] route = "utxos" -> <<"getUTXOs">>
      [] route = "list" -> <<"select">>
      [] route = "patch" -> <<"update">>
      [] route = "delete" -> <<"delete">>

\* what a handler sends before its first await: 400 for a body it rejects,
\* 500 when the vault routes find no Supabase client, 0 for nothing
handlerEarly(route, ok, sa) ==
    IF route \in {"create", "broadcast"} /\ ~ok THEN 400
    ELSE IF route \in {"list", "patch", "delete"} /\ ~sa THEN 500
    ELSE 0

\* the status a handler sends once its k-th await has answered with an
\* outcome ("ok", "error": it threw or returned an error, "refused": an empty
\* utxo list or a row of another owner); 0 when it goes on to its next await
AfterEffect(route, k, outcome) ==
    IF route = "create"
    THEN CASE k = 1 -> (IF outcome = "ok" THEN 0 ELSE IF outcome = "refused" THEN 400 ELSE 500)
           [] k = 2 -> (IF outcome = "ok" THEN 0 ELSE 500)
           [] k = 3 -> (IF outcome = "refused" THEN 403 ELSE 0)
           [] OTHER -> 200
    ELSE IF outcome # "ok" THEN 500
    ELSE IF route = "delete" THEN 204
    ELSE 200

\* handler(req, res, user) up to its first await or its response
RunHandler(route, ok, sent) ==
    LET e == handlerEarly(route, ok, supabaseAdmin)
    IN  IF e # 0
        THEN /\ responses' = Append(sent, e)
             /\ epc' = "done"
             /\ awaited' = 0
        ELSE /\ responses' = sent
             /\ epc' = "await"
             /\ awaited' = 1

\* withAuth after authenticateRequest returned u, having sent `sent`
AfterAuthenticate(u, route, ok, sent) ==
    IF withAuthReturns(u)
    THEN /\ responses' = sent
         /\ epc' = "done"
         /\ awaited' = 0
    ELSE RunHandler(route, ok, sent)

\* a request arrives: authenticateRequest up to its await of getUser
EndpointRequest ==
    /\ epc = "idle"
    /\ \E route \in Routes, h \in AuthorizationHeaders, ok \in BOOLEAN :
          /\ endpoint' = route
          /\ authorization' = h
          /\ bodyOk' = ok
          /\ LET early == authEarly(supabaseAdmin, h)
             IN  IF early # 0
                 THEN AfterAuthenticate("", route, ok, <<early>>)
                 ELSE /\ epc' = "getUser"
                      /\ UNCHANGED <<awaited, responses>>
    /\ UNCHANGED <<euser, effects>>
    /\ UNCHANGED <<encVars, buildVars, serverVars, concVars, providerVars>>

\* supabaseAdmin.auth.getUser(token) answers
EndpointAuthResult ==
    /\ epc = "getUser"
    /\ \E failed \in BOOLEAN :
          LET u == IF failed THEN "" ELSE UserOfToken(BearerToken(authorization))
              sent == IF u = "" THEN Append(responses, 401) ELSE responses
          IN  /\ euser' = u
              /\ AfterAuthenticate(u, endpoint, bodyOk, sent)
    /\ UNCHANGED <<endpoint, authorization, bodyOk, effects>>
    /\ UNCHANGED <<encVars, buildVars, serverVars, concVars, providerVars>>

\* what the handler awaits answers
EndpointEffect ==
    /\ epc = "await"
    /\ effects' = Append(effects, HandlerEffects(endpoint)[awaited])
    /\ \E outcome \in {"ok", "error", "refused"} :
          LET st == AfterEffect(endpoint, awaited, outcome)
          IN  IF st # 0
              THEN /\ responses' = Append(responses, st)
                   /\ epc' = "done"
                   /\ UNCHANGED awaited
              ELSE /\ awaited' = awaited + 1
                   /\ UNCHANGED <<responses, epc>>
    /\ UNCHANGED <<endpoint, authorization, bodyOk, euser>>
    /\ UNCHANGED <<encVars, buildVars, serverVars, concVars, providerVars>>

NextEndpoint ==
    \/ EndpointRequest
    \/ EndpointAuthResult
    \/ EndpointEffect

\* the server is up, with or without a Supabase client, and no request yet
InitEndpointServer ==
    /\ handler = "auth"
    /\ supabaseAdmin \in BOOLEAN
    /\ now = 0
    /\ vaults = [v \in VaultIds |-> NoRow]
    /\ spc = "off"
    /\ token = ""
    /\ body = NoBody
    /\ user = ""
    /\ utxos = NotFetched
    /\ inscriptionScript = NoScript
    /\ response = NoResponse
    /\ endpoint = "none"
    /\ authorization = NoAuthorization
    /\ bodyOk = FALSE
    /\ epc = "idle"
    /\ awaited = 0
    /\ euser = ""
    /\ effects = <<>>
    /\ responses = <<>>

----------------------------------------------------------------------------
(* src/context/AuthContext: AuthProvider *)

\* the sessions the Supabase client can hold; "null" is no session
Sessions == {"null", "s1", "s2"}

NoEvent == [seen |-> FALSE, session |-> "null"]

\* if (!mounted) return;
getSessionApplies(m, ev) == m

\* the effect runs: getSession() is called and the subscription is made
Mount ==
    /\ ~mounted
    /\ getSessionPc = "none"
    /\ mounted' = TRUE
    /\ subscribed' = TRUE
    /\ getSessionPc' = "called"
    /\ UNCHANGED <<authStore, snapshot, session, loading, lastEvent, eventCount>>
    /\ UNCHANGED <<encVars, buildVars, serverVars, concVars, endpointVars>>

\* getSession() reads the session the client holds
GetSessionReads ==
    /\ getSessionPc = "called"
    /\ snapshot' = authStore
    /\ getSessionPc' = "read"
    /\ UNCHANGED <<authStore, session, loading, mounted, subscribed, lastEvent, eventCount>>
    /\ UNCHANGED <<encVars, buildVars, serverVars, concVars, endpointVars>>

\* the promise of getSession() resolves: the then-callback runs
GetSessionResolves ==
    /\ getSessionPc = "read"
    /\ getSessionPc' = "settled"
    /\ IF getSessionApplies(mounted, lastEvent)
       THEN /\ session' = snapshot
            /\ loading' = FALSE
       ELSE UNCHANGED <<session, loading>>
    /\ UNCHANGED <<authStore, snapshot, mounted, subscribed, lastEvent, eventCount>>
    /\ UNCHANGED <<encVars, buildVars, serverVars, concVars, endpointVars>>

\* the client's session changes (sign-in, sign-out, token refresh); the
\* onAuthStateChange callback runs while the subscription is active
AuthEvent ==
    /\ eventCount < MaxEvents
    /\ eventCount' = eventCount + 1
    /\ \E nextSession \in Sessions :
          /\ authStore' = nextSession
          /\ IF subscribed
             THEN /\ session' = nextSession
                  /\ loading' = FALSE
                  /\ lastEvent' = [seen |-> TRUE, session |-> nextSession]
             ELSE UNCHANGED <<session, loading, lastEvent>>
    /\ UNCHANGED <<getSessionPc, snapshot, mounted, subscribed>>
    /\ UNCHANGED <<encVars, buildVars, serverVars, concVars, endpointVars>>

\* the effect's cleanup
Unmount ==
    /\ mounted
    /\ mounted' = FALSE
    /\ subscribed' = FALSE
    /\ UNCHANGED <<authStore, getSessionPc, snapshot, session, loading, lastEvent, eventCount>>
    /\ UNCHANGED <<encVars, buildVars, serverVars, concVars, endpointVars>>

NextProvider ==
    \/ Mount
    \/ GetSessionReads
    \/ GetSessionResolves
    \/ AuthEvent
    \/ Unmount

\* the provider is about to mount; the client holds any session
InitProviderSession ==
    /\ authStore \in Sessions
    /\ getSessionPc = "none"
    /\ snapshot = "null"
    /\ session = "null"
    /\ loading = TRUE
    /\ mounted = FALSE
    /\ subscribed = FALSE
    /\ lastEvent = NoEvent
    /\ eventCount = 0

----------------------------------------------------------------------------
(* Idle states of the parts a specification leaves out *)

EndpointIdle ==
    /\ endpoint = "none"
    /\ authorization = NoAuthorization
    /\ bodyOk = FALSE
    /\ epc = "off"
    /\ awaited = 0
    /\ euser = ""
    /\ effects = <<>>
    /\ responses = <<>>

ProviderIdle ==
    /\ authStore = "null"
    /\ getSessionPc = "none"
    /\ snapshot = "null"
    /\ session = "null"
    /\ loading = TRUE
    /\ mounted = FALSE
    /\ subscribed = FALSE
    /\ lastEvent = NoEvent
    /\ eventCount = 0

----------------------------------------------------------------------------
(* Specifications *)

\* a client calling the functions of ordinals.js
InitEncoder ==
    InitEncoderSession /\ BuilderIdle /\ ServerIdle /\ ConcIdle /\ EndpointIdle /\ ProviderIdle

SpecEncoder == InitEncoder /\ [][NextEncoder]_vars

\* a caller of buildTimeLockedTransaction
InitBuilder ==
    EncoderIdle /\ BuilderIdle /\ ServerIdle /\ ConcIdle /\ EndpointIdle /\ ProviderIdle

SpecBuilder == InitBuilder /\ [][NextBuilder]_vars

\* the server answering one POST /api/vault/create
InitServer ==
    EncoderIdle /\ BuilderIdle /\ InitServerUp /\ ConcIdle /\ EndpointIdle /\ ProviderIdle

\* several callers of buildTimeLockedTransaction at once
InitConcurrentCalls ==
    EncoderIdle /\ BuilderIdle /\ ServerIdle /\ InitConcurrent /\ EndpointIdle /\ ProviderIdle

SpecConcurrent == InitConcurrentCalls /\ [][NextConcurrent]_vars

\* the server answering one request to a route wrapped in withAuth
InitEndpoints ==
    EncoderIdle /\ BuilderIdle /\ InitEndpointServer /\ ConcIdle /\ ProviderIdle

SpecEndpoints == InitEndpoints /\ [][NextEndpoint]_vars

\* the AuthProvider component in a browser
InitProvider ==
    EncoderIdle /\ BuilderIdle /\ ServerIdle /\ ConcIdle /\ EndpointIdle /\ InitProviderSession

SpecProvider == InitProvider /\ [][NextProvider]_vars

SpecServer == InitServer /\ [][NextServer]_vars

Init == InitServer

Next == NextServer

Spec == SpecServer

----------------------------------------------------------------------------
(* Claims about buildTimeLockedTransaction (SpecBuilder) *)

\* the heir outputs of a transaction: every output after the carrier output
HeirValues(tx) == [i \in 1..(Len(tx.txOuts) - 1) |-> tx.txOuts[i + 1].value]

OutputValues(tx) == [i \in 1..Len(tx.txOuts) |-> tx.txOuts[i].value]

InputValues(r) == [i \in 1..Len(r.utxos) |-> r.utxos[i].value]

\* C1: value conservation -- in every successful build the output values plus
\* the returned fee equal the values of the utxos spent.
C1_ValueConservation ==
    (ret.status = "ok" /\ Len(req.heirAddresses) >= 1) =>
        SumSeq(OutputValues(ret.tx)) + ret.fee = SumSeq(InputValues(req))

C3_NonFinalSequence ==
    /\ \A i \in 1..Len(psbt.txIns) :
          /\ psbt.txIns[i].sequence = U32(65535, 65534)
          /\ LessU32(psbt.txIns[i].sequence, U32(65535, 65535))
    /\ ret.status = "ok" =>
          /\ Len(ret.tx.txIns) = Len(req.utxos)
          /\ \A i \in 1..Len(ret.tx.txIns) :
                LessU32(ret.tx.txIns[i].sequence, U32(65535, 65535))

C3_Witness ==
    /\ ret.status = "ok"
    /\ Len(ret.tx.txIns) >= 2

\* C4: remainder handling -- with distributable = totalInput - fee, the first
\* N-1 heir outputs are floor(distributable / N) and the last one takes the
\* remainder.
C4_RemainderHandling ==
    (ret.status = "ok" /\ Len(req.heirAddresses) >= 1) =>
        LET n == Len(req.heirAddresses)
            distributable == SumSeq(InputValues(req)) - ret.fee
            heirs == HeirValues(ret.tx)
        IN  /\ Len(heirs) = n
            /\ \A i \in 1..(n - 1) : heirs[i] = distributable \div n
            /\ heirs[n] = distributable - (n - 1) * (distributable \div n)

\* C11: fee formula -- the returned fee is the estimated size times the rate,
\* where the size counts 148 per input, 34 per output, 10 of overhead and the
\* byte length of the carrier script (the rate taken as the 2 sat/vB the
\* build uses).
C11_FeeFormula ==
    ret.status = "ok" =>
        ret.fee = (148 * Len(ret.tx.txIns) + 34 * Len(ret.tx.txOuts) + 10
                   + Len(req.inscriptionScript)) * 2

\* the fee the build computes for a request: line 126-127 on its inputs and
\* its outputs (the carrier output and one per heir)
FeeOfRequest(r) ==
    (148 * Len(r.utxos) + 34 * (Len(r.heirAddresses) + 1) + 10) * 2

\* C12: insufficient-funds threshold -- a build of 1..3 valid heir addresses
\* whose fetches succeed throws "Insufficient funds" exactly when
\* totalInput - fee < N * 546, and returns a transaction otherwise.
C12_InsufficientFundsThreshold ==
    (/\ bpc \in {"done", "failed"}
     /\ ret.error # "Failed to fetch transaction"
     /\ Len(req.heirAddresses) >= 1
     /\ \A i \in 1..Len(req.heirAddresses) : req.heirAddresses[i] # "bad")
    => /\ (ret = Thrown("Insufficient funds"))
            <=> (SumSeq(InputValues(req)) - FeeOfRequest(req)
                    < Len(req.heirAddresses) * 546)
       /\ ret.status = "ok"
            <=> (SumSeq(InputValues(req)) - FeeOfRequest(req)
                    >= Len(req.heirAddresses) * 546)

\* C13: locktime verbatim -- from the moment the build has started the
\* transaction's locktime is the lockTime of the request, and a returned
\* result carries it unchanged in its lockTime field and in its transaction.
C13_LocktimeVerbatim ==
    /\ bpc # "idle" => psbt.locktime = req.lockTime
    /\ ret.status = "ok" =>
          /\ ret.lockTime = req.lockTime
          /\ ret.tx.locktime = req.lockTime

\* a transaction was returned for a lockTime that is a block height
C13_Witness ==
    /\ ret.status = "ok"
    /\ req.lockTime = 400000
    /\ ret.tx.locktime = 400000

\* C14: output order -- a returned transaction has N + 1 outputs: output 0 is
\* the carrier output (value 0, the given script), outputs 1..N pay the heir
\* addresses in the caller's order.
C14_OutputOrder ==
    ret.status = "ok" =>
        LET n == Len(req.heirAddresses)
            outs == ret.tx.txOuts
        IN  /\ Len(outs) = n + 1
            /\ ret.outputs = n + 1
            /\ outs[1].value = 0
            /\ outs[1].script = req.inscriptionScript
            /\ outs[1].address = ""
            /\ \A i \in 1..n : outs[i + 1].address = req.heirAddresses[i]

\* a transaction was returned that pays two different heirs
C14_Witness ==
    /\ ret.status = "ok"
    /\ Len(req.heirAddresses) >= 2
    /\ req.heirAddresses[1] # req.heirAddresses[2]
    /\ ret.tx.txOuts[2].address = req.heirAddresses[1]

\* C18: heir count -- buildTimeLockedTransaction returns a transaction only
\* for a list of one to three heir addresses; an empty list never yields one.
C18_HeirCount ==
    ret.status = "ok" =>
        /\ Len(req.heirAddresses) >= 1
        /\ Len(req.heirAddresses) <= 3

\* C19: distinct heirs -- every returned transaction pays pairwise distinct
\* heir addresses; a request that repeats an address yields no transaction.
C19_DistinctHeirs ==
    ret.status = "ok" =>
        \A i, j \in 1..Len(req.heirAddresses) :
            i # j => /\ req.heirAddresses[i] # req.heirAddresses[j]
                     /\ ret.tx.txOuts[i + 1].address # ret.tx.txOuts[j + 1].address

\* C21: no network contact -- a build never waits on a fetch from the chain
\* API and never fails because of one.
C21_NoNetworkContact ==
    /\ bpc # "fetch"
    /\ ret.error # "Failed to fetch transaction"

\* C24 as claimed: for 1..3 heir addresses a build whose inputs were all
\* added returns a transaction if and only if totalInput >= 546 * N + 1000.
C24_ThresholdIff ==
    (/\ bpc \in {"done", "failed"}
     /\ ret.error # "Failed to fetch transaction"
     /\ Len(req.heirAddresses) >= 1)
    => (ret.status = "ok"
          <=> SumSeq(InputValues(req)) >= 546 * Len(req.heirAddresses) + 1000)

\* C24, amended: a returned transaction always has totalInput >= 546 * N + 1000;
\* below that amount the build throws "Insufficient funds" whatever the
\* addresses; at or above it the build returns a transaction exactly when
\* every heir address is valid, and throws on the first invalid one otherwise.
C24_ThresholdValidAddresses ==
    (/\ bpc \in {"done", "failed"}
     /\ ret.error # "Failed to fetch transaction"
     /\ Len(req.heirAddresses) >= 1)
    => LET n == Len(req.heirAddresses)
           enough == SumSeq(InputValues(req)) >= 546 * n + 1000
           valid == \A i \in 1..n : IsValidAddress(req.heirAddresses[i])
       IN  /\ ret.status = "ok" <=> (enough /\ valid)
           /\ ~enough <=> ret = Thrown("Insufficient funds")
           /\ (enough /\ ~valid) <=> ret = Thrown("Invalid address")

\* a transaction was returned for a total that is exactly 546 * N + 1000
C24_Witness ==
    /\ ret.status = "ok"
    /\ Len(req.heirAddresses) >= 1
    /\ SumSeq(InputValues(req)) = 546 * Len(req.heirAddresses) + 1000

C26_NoOverspend ==
    ret.status = "ok" =>
        /\ SumSeq(OutputValues(ret.tx)) <= SumSeq(InputValues(req))
        /\ SumSeq(InputValues(req)) - SumSeq(OutputValues(ret.tx)) >= ret.fee

----------------------------------------------------------------------------
(* Claims about the encoder (SpecEncoder) *)

\* the bytes a chunk of a decompiled script pushes: those of a Buffer, or the
\* one byte that OP_1..OP_16 and OP_1NEGATE stand for
PushedBytes(chunk) ==
    IF chunk.isBuf THEN chunk.buf
    ELSE IF chunk.op = OP_1NEGATE THEN <<129>>
    ELSE <<chunk.op - OP_RESERVED>>

\* the data pushes of an envelope: what follows the separator, up to OP_ENDIF
DataPushes(bytes) ==
    LET c == decompile(bytes).chunks
    IN  [k \in 1..(Len(c) - 7) |-> PushedBytes(c[k + 6])]

RECURSIVE Concat(_)
Concat(ss) == IF ss = <<>> THEN <<>> ELSE Head(ss) \o Concat(Tail(ss))

HasMarkerPair(bytes) ==
    LET c == decompile(bytes).chunks
    IN  Len(c) >= 2 /\ c[1] = Op(0) /\ c[2] = Op(99)

\* C5: round trip -- parsing the script createLargeOrdinalInscription makes
\* of a payload of 1..10240 bytes returns the payload and the content type.
C5_RoundTripLarge ==
    (/\ script.by = "createLargeOrdinalInscription"
     /\ parsed.status # "none"
     /\ Len(BufferFromUtf8(data)) >= 1
     /\ Len(BufferFromUtf8(data)) <= 10240)
    => /\ parsed.status = "ok"
       /\ parsed.data = data
       /\ parsed.contentType = contentType

\* C6: chunk boundary -- a payload of L bytes is emitted as ceil(L / 520)
\* data pushes after the separator, each of 520 bytes but the last, which
\* carries the rest, in payload order; none is empty or longer than 520.
C6_ChunkBoundary ==
    script.by = "createLargeOrdinalInscription" =>
        LET payload == BufferFromUtf8(data)
            L == Len(payload)
            pushes == DataPushes(script.bytes)
            n == Len(pushes)
        IN  /\ n = (L + 519) \div 520
            /\ \A k \in 1..(n - 1) : Len(pushes[k]) = 520
            /\ Len(pushes[n]) = L - 520 * (n - 1)
            /\ \A k \in 1..n : Len(pushes[k]) >= 1 /\ Len(pushes[k]) <= 520
            /\ Concat(pushes) = payload

\* C9 as claimed: a script without the OP_FALSE OP_IF pair is answered "Not
\* an Ordinal inscription" whatever its length, and "Invalid inscription
\* script" is kept for scripts that have the pair.
C9_MarkerBeforeLength ==
    parsed.status # "none" =>
        /\ ~HasMarkerPair(script.bytes) => parsed.error = "Not an Ordinal inscription"
        /\ parsed.error = "Invalid inscription script" => HasMarkerPair(script.bytes)

\* C9 as amended: the length comes first.  A script that does not decompile
\* or has fewer than 7 operations is answered "Invalid inscription script",
\* with or without the marker pair; a script of 7 operations or more is
\* answered "Not an Ordinal inscription" exactly when it lacks the pair.
C9_LengthBeforeMarker ==
    parsed.status # "none" =>
        LET dec == decompile(script.bytes)
            short == ~dec.ok \/ Len(dec.chunks) < 7
        IN  /\ (parsed.error = "Invalid inscription script") <=> short
            /\ (parsed.error = "Not an Ordinal inscription")
                  <=> (~short /\ ~HasMarkerPair(script.bytes))

C9_Witness ==
    /\ script.by = "client"
    /\ parsed.error = "Not an Ordinal inscription"
    /\ Len(decompile(script.bytes).chunks) = 8

\* C10: protocol tag validation -- a result is returned only for a script
\* whose tag push is "ord" and whose version push is 1.
C10_TagAndVersionChecked ==
    parsed.status = "ok" =>
        LET c == decompile(script.bytes).chunks
        IN  /\ c[3] = Buf(<<111, 114, 100>>)
            /\ PushedBytes(c[4]) = <<1>>

----------------------------------------------------------------------------
(* Claims about POST /api/vault/create (SpecServer) *)

\* every Buffer the carrier script pushes
ScriptPushes(bytes) ==
    LET c == decompile(bytes).chunks
    IN  {c[k].buf : k \in {j \in 1..Len(c) : c[j].isBuf}}

\* C7: push-size ceiling -- the carrier script at output 0 of a transaction
\* the route built holds no push longer than 520 bytes, and a payload
\* longer than 520 bytes is split into several pushes.
C7_PushCeiling ==
    (spc # "off" /\ ret.status = "ok") =>
        LET carrier == ret.tx.txOuts[1].script
        IN  /\ carrier = inscriptionScript.bytes
            /\ \A b \in ScriptPushes(carrier) : Len(b) <= 520
            /\ Len(BufferFromUtf8(body.encryptedData)) > 520
                  => Len(DataPushes(carrier)) >= 2

\* C8: payload too large -- for a payload longer than 10,240 bytes no carrier
\* script is made, no transaction is built and the request is not answered
\* with success.
C8_PayloadTooLarge ==
    Len(BufferFromUtf8(body.encryptedData)) > 10240 =>
        /\ ~inscriptionScript.made
        /\ ret.status # "ok"
        /\ response.sent => response.status # 200

\* C15: size estimate lock-step -- for a payload of 1..10240 bytes,
\* estimateInscriptionSize(payload, contentType) is the byte length of the
\* script the chunking encoder makes for that payload and content type.
C15_EstimateLockStep ==
    (/\ script.by = "createLargeOrdinalInscription"
     /\ Len(BufferFromUtf8(data)) >= 1
     /\ Len(BufferFromUtf8(data)) <= 10240)
    => estimateInscriptionSize(data, contentType) = Len(script.bytes)

\* a row of digitalwill_vaults written by a vault-create request
Persisted(v) == vaults[v].status = "built"

\* C16: locktime domain -- a lockTime below 500,000,000 is a block height: a
\* request carrying one is never answered "lockTime must be in the future"
\* (a comparison with the clock), and no row stored for one holds a number of
\* days computed from it as from UNIX seconds.
C16_LocktimeDomain ==
    /\ (response.sent /\ body.lockTime >= 1 /\ body.lockTime < 500000000)
          => response.error # "lockTime must be in the future"
    /\ \A v \in VaultIds :
          (Persisted(v) /\ vaults[v].lock_time < 500000000)
             => vaults[v].lock_days # RoundDays(vaults[v].lock_time - now)

\* C17: locktime in the future -- a request whose lockTime is not after the
\* current time never gets as far as the UTXO fetch: no script is encoded, no
\* build is started, nothing is persisted and it is not answered with success.
C17_LocktimeInFuture ==
    (spc \notin {"off", "idle"} /\ body.lockTime <= now)
    => /\ spc \notin {"utxos", "build", "lookup", "upsert"}
       /\ ~utxos.fetched
       /\ ~inscriptionScript.made
       /\ bpc = "idle"
       /\ response.sent => response.status # 200
       /\ \A v \in VaultIds : ~Persisted(v)

\* C20: no spendable outputs -- once getUTXOs has answered with an empty
\* list the request is answered 400 "No UTXOs found for funding address...", no
\* script is encoded, buildTimeLockedTransaction is not called and no row is
\* written; a build only ever runs on a non-empty list.
C20_NoSpendableOutputs ==
    /\ (utxos.fetched /\ utxos.list = <<>>)
          => /\ spc = "responded"
             /\ response = Respond(400, "No UTXOs found for funding address. Please fund the address first.")
             /\ ~inscriptionScript.made
             /\ bpc = "idle"
             /\ ret = NoReturn
             /\ \A v \in VaultIds : ~Persisted(v)
    /\ (spc # "off" /\ bpc # "idle") => Len(utxos.list) >= 1

\* an authenticated request with a valid body found no UTXOs
C20_Witness ==
    /\ utxos.fetched
    /\ utxos.list = <<>>
    /\ response.status = 400
    /\ handler = "auth"
    /\ supabaseAdmin

\* C29: single-push round trip -- parsing the script that
\* createOrdinalInscription made for a non-empty payload returns protocol
\* "ord", version 1, the content type and the payload.
C29_RoundTripSingle ==
    (/\ script.by = "createOrdinalInscription"
     /\ parsed.status # "none"
     /\ Len(data) >= 1)
    => /\ parsed.status = "ok"
       /\ parsed.protocol = StrOrd
       /\ parsed.version = 1
       /\ parsed.contentType = contentType
       /\ parsed.data = data

\* C27: vault ownership on create -- no step of a vault-create request changes
\* the owner_id of a row that exists.
C27_OwnerNeverReassigned ==
    [][\A v \in VaultIds :
          vaults[v].exists => vaults'[v].owner_id = vaults[v].owner_id]_vars

\* C22: a failed build leaves no state -- when buildTimeLockedTransaction has
\* thrown inside the handler, the request is answered 500, the handler never
\* reaches the lookup or the upsert and the table is as it was; a request
\* sent afterwards starts in a state in which a first request starts.
C22_FailedBuildLeavesNoState ==
    /\ (spc # "off" /\ bpc = "failed")
          => /\ spc \in {"build", "responded"}
             /\ vaults \in InitialVaults
             /\ \A v \in VaultIds : ~Persisted(v)
             /\ spc = "responded"
                   => response = Respond(500, "Failed to create vault transaction")
    /\ spc = "idle" => (InitServerUp /\ BuilderIdle)

\* the authenticated handler, with persistence on, answered a build that
\* threw "Insufficient funds"
C22_Witness ==
    /\ spc = "responded"
    /\ ret = Thrown("Insufficient funds")
    /\ handler = "auth"
    /\ supabaseAdmin
    /\ response.status = 500

\* the result of a call that runs alone and whose fetches all succeed
RECURSIVE runAlone(_)
runAlone(c) == IF c.bpc = "fetch" THEN runAlone(fetchOkCall(c)) ELSE c

\* C23: build isolation -- whatever the interleaving, a call holds only
\* inputs of its own request, its running total is the sum of the values of
\* the inputs it has added, and what it returns or throws is what it returns
\* or throws when run alone.
C23_BuildIsolation ==
    \A i \in 1..Len(calls) :
        LET c == calls[i]
            n == Len(c.psbt.txIns)
        IN  /\ n <= Len(c.req.utxos)
            /\ \A k \in 1..n : c.psbt.txIns[k].hash = c.req.utxos[k].txid
            /\ c.bpc = "fetch" =>
                  c.totalInput = SumSeq([k \in 1..n |-> c.req.utxos[k].value])
            /\ (c.bpc \in {"done", "failed"}
                 /\ c.ret.error # "Failed to fetch transaction")
                  => /\ c.ret = runAlone(startCall(c.req)).ret
                     /\ c.psbt = runAlone(startCall(c.req)).psbt

\* one call returned a transaction of two inputs while another call was
\* between two of its fetches
C23_Witness ==
    /\ Len(calls) >= 2
    /\ calls[1].ret.status = "ok"
    /\ Len(calls[1].ret.tx.txIns) = 2
    /\ calls[2].bpc = "fetch"
    /\ calls[2].nextUtxo = 2
    /\ calls[2].totalInput > 0

\* the bearer token of the request is one getUser accepted
TokenValidated ==
    /\ supabaseAdmin
    /\ euser # ""
    /\ euser = UserOfToken(BearerToken(authorization))

\* C28: authentication comes first -- on every route wrapped in withAuth no
\* fetch, build, broadcast or database call is made or awaited unless the
\* bearer token was validated; a request is answered at most once; one with
\* no Supabase client gets 500 and one with a missing or invalid token gets
\* 401, and neither has any other effect.
C28_AuthFirst ==
    /\ (Len(effects) > 0 \/ epc = "await") => TokenValidated
    /\ Len(responses) <= 1
    /\ epc = "done" => Len(responses) = 1
    /\ (epc = "done" /\ ~supabaseAdmin)
          => (responses = <<500>> /\ effects = <<>>)
    /\ (epc = "done" /\ supabaseAdmin
         /\ UserOfToken(BearerToken(authorization)) = "")
          => (responses = <<401>> /\ effects = <<>>)

\* a broadcast request with a well-formed body and a token getUser rejects
\* was answered 401
C28_Witness ==
    /\ epc = "done"
    /\ endpoint = "broadcast"
    /\ bodyOk
    /\ authorization = [scheme |-> "Bearer ", credentials |-> "bad"]
    /\ responses = <<401>>
    /\ effects = <<>>

\* C30: auth session freshness -- once an auth event has been delivered, the
\* session the provider holds is the session of the most recent event.
C30_SessionFreshness ==
    lastEvent.seen => session = lastEvent.session

=============================================================================
